---- MODULE Spec2Model ----
(***************************************************************************)
(* Model of titanium-web-extension/src/dom.rs: the DOM state oracle        *)
(* (is_enabled, is_hidden, is_visible, is_text_input), the NodeIter /      *)
(* ElementIter sequence adapter, match_pattern and mouse_event.            *)
(*                                                                         *)
(* The host DOM is modelled by what the functions read of it: an element   *)
(* together with its chain of parent elements (or offset parents), its     *)
(* computed style, its bounding rectangle, the window metrics and the      *)
(* live collections the adapter indexes.                                   *)
(***************************************************************************)
EXTENDS Integers, Sequences, FiniteSets, TLC

VARIABLES
    called,        \* names of the functions that have been called and have returned
    parentChain,   \* is_enabled: element, its parent element, ... (the chain ends where get_parent_element is None)
    enabledRet,    \* value returned by is_enabled
    textElement,   \* is_text_input: the element
    textRet,       \* value returned by is_text_input
    hasView,       \* document.get_default_view() is Some
    offsetChain,   \* is_hidden: element, its offset parent, ...
    hiddenRet,     \* value returned by is_hidden
    rect,          \* element.get_bounding_client_rect(): NoRect or the rectangle
    innerWidth,    \* window.get_inner_width()
    innerHeight,   \* window.get_inner_height()
    visibleRet,    \* value returned by is_visible
    adapter,       \* "NodeIter" (over a DOMNodeList) or "ElementIter" (over a DOMHTMLCollection)
    node_list,     \* the adapter's node_list field: the live host collection, or absent
    index,         \* the adapter's index field
    calls,         \* history: the outcome of every next() call on the adapter, in order
    mutated,       \* history: the host has changed the collection since the adapter was built
    nextId,        \* identity the host gives to the next node it creates
    regex,         \* match_pattern: the compiled regular expression
    matchRet,      \* value returned by match_pattern
    mouseEnv,      \* what the host answers to mouse_event's queries
    events,        \* the events passed to dispatch_event on the element, in order
    mouseCalls,    \* number of mouse_event calls that have returned
    mouseLast      \* history: what the last mouse_event call saw

enabledVars == <<parentChain, enabledRet>>
textVars    == <<textElement, textRet>>
hiddenVars  == <<offsetChain, hiddenRet>>
visibleVars == <<rect, innerWidth, innerHeight, visibleRet>>
oracleVars  == <<enabledVars, textVars, hasView, hiddenVars, visibleVars>>
iterVars    == <<adapter, node_list, index, calls, mutated, nextId>>
matchVars   == <<regex, matchRet>>
mouseVars   == <<mouseEnv, events, mouseCalls, mouseLast>>
vars == <<called, oracleVars, iterVars, matchVars, mouseVars>>

(***************************************************************************)
(* Bounds                                                                  *)
(***************************************************************************)
MaxChain == 3      \* longest ancestor chain explored
MaxLen == 3        \* longest host collection
MaxCalls == 5      \* next() calls on one adapter
MaxNodes == 5      \* nodes the host creates in all
MaxEvents == 2     \* events dispatched in one run
MaxMouseCalls == 3 \* mouse_event calls in one run

SeqsUpTo(S, n) == UNION {[1..k -> S] : k \in 0..n}
NonEmptySeqsUpTo(S, n) == UNION {[1..k -> S] : k \in 1..n}

(***************************************************************************)
(* is_enabled                                                              *)
(***************************************************************************)
FormKinds    == {"button", "input", "select", "textarea"}
DisableKinds == FormKinds \cup {"fieldset"}
Kinds        == DisableKinds \cup {"other"}

\* The tag name the host reports for an element of a kind that fixes it.
TagOfKind(k) ==
    CASE k = "button" -> "BUTTON"
      [] k = "input" -> "INPUT"
      [] k = "select" -> "SELECT"
      [] k = "textarea" -> "TEXTAREA"
      [] k = "fieldset" -> "FIELDSET"

\* Tag names of the elements that are none of the five kinds ("body" is what
\* an XHTML document reports).
OtherTags == {"BODY", "body", "DIV"}

ParentChainElements ==
    {[kind |-> k, tag |-> TagOfKind(k), disabled |-> d] : k \in DisableKinds, d \in BOOLEAN}
    \cup {[kind |-> "other", tag |-> t, disabled |-> FALSE] : t \in OtherTags}

\* element.is::<DOMHTMLButtonElement>() || ... || element.is::<DOMHTMLTextAreaElement>()
is_form_element(element) == element.kind \in FormKinds

\* el.get_tag_name() == Some("BODY".to_string())
tag_is_BODY(el) == el.tag = "BODY"

\* return_if_disabled!(ty, el): TRUE when the macro returns false from is_enabled
return_if_disabled(ty, el) == el.kind = ty /\ el.disabled

\* the five return_if_disabled! lines of the loop body
any_return_if_disabled_no_fieldset(el) ==
    \/ return_if_disabled("button", el)
    \/ return_if_disabled("input", el)
    \/ return_if_disabled("select", el)
    \/ return_if_disabled("textarea", el)
any_return_if_disabled(el) ==
    \/ return_if_disabled("button", el)
    \/ return_if_disabled("input", el)
    \/ return_if_disabled("select", el)
    \/ return_if_disabled("textarea", el)
    \/ return_if_disabled("fieldset", el)

\* the while-let loop of is_enabled, at position i of the parent chain
RECURSIVE enabled_walk(_, _)
enabled_walk(chain, i) ==
    IF i > Len(chain) THEN TRUE                   \* get_parent_element() was None
    ELSE IF tag_is_BODY(chain[i]) THEN TRUE       \* break
    ELSE IF any_return_if_disabled(chain[i]) THEN FALSE
    ELSE enabled_walk(chain, i + 1)

is_enabled(chain) ==
    IF is_form_element(chain[1]) THEN enabled_walk(chain, 1) ELSE TRUE

IdleEnabled ==
    /\ parentChain = <<[kind |-> "other", tag |-> "BODY", disabled |-> FALSE]>>
    /\ enabledRet = TRUE

InitEnabled ==
    /\ parentChain \in NonEmptySeqsUpTo(ParentChainElements, MaxChain)
    /\ enabledRet = TRUE

CallIsEnabled ==
    /\ "is_enabled" \notin called
    /\ enabledRet' = is_enabled(parentChain)
    /\ called' = called \cup {"is_enabled"}
    /\ UNCHANGED <<parentChain, textVars, hasView, hiddenVars, visibleVars, iterVars, matchVars, mouseVars>>

(***************************************************************************)
(* is_text_input                                                           *)
(***************************************************************************)
NoType == "<none>"    \* get_input_type() returned None

NonTextTypes ==
    {"button", "checkbox", "color", "file", "hidden", "image", "radio", "reset", "submit"}
NonTextTypesNoColor ==
    {"button", "checkbox", "file", "hidden", "image", "radio", "reset", "submit"}

\* The type strings tried: the nine, ordinary text-like ones, a different
\* spelling of one of the nine, an unknown one and the empty string.
TypeStrings ==
    NonTextTypes \cup {"text", "number", "search", "Button", "submit ", "frobnicate", ""}

TextElements ==
    {[kind |-> k, type |-> t] : k \in Kinds, t \in TypeStrings \cup {NoType}}

\* element.clone().downcast::<DOMHTMLInputElement>().ok()
\*     .and_then(|input_element| input_element.get_input_type())
\*     .unwrap_or_else(|| "text".to_string())
input_type(element) ==
    IF element.kind = "input" /\ element.type # NoType THEN element.type ELSE "text"

\* the match on input_type
is_non_text_type_no_color(t) == t \in NonTextTypesNoColor
is_non_text_type(t) == t \in NonTextTypes

is_text_input(element) == ~ is_non_text_type(input_type(element))

IdleText == textElement = [kind |-> "other", type |-> NoType] /\ textRet = TRUE

InitText ==
    /\ textElement \in TextElements
    /\ textRet = TRUE

CallIsTextInput ==
    /\ "is_text_input" \notin called
    /\ textRet' = is_text_input(textElement)
    /\ called' = called \cup {"is_text_input"}
    /\ UNCHANGED <<textElement, enabledVars, hasView, hiddenVars, visibleVars, iterVars, matchVars, mouseVars>>

(***************************************************************************)
(* is_hidden                                                               *)
(***************************************************************************)
\* unwrap_opt_or_ret!(opt, ret): TRUE when the option is None and the macro
\* makes the enclosing function return ret
unwrap_opt_or_ret_returns(present) == ~ present

NoStyle == [present |-> FALSE, display |-> "", visibility |-> "", opacity |-> ""]
Style(d, v, o) == [present |-> TRUE, display |-> d, visibility |-> v, opacity |-> o]

\* window.get_computed_style(&el, None) of the elements tried: none, nothing
\* hiding, each of the three hiding values, and an opacity that is zero as a
\* number but not the string "0".
Styles ==
    { NoStyle,
      Style("block", "visible", "1"),
      Style("none", "visible", "1"),
      Style("block", "hidden", "1"),
      Style("block", "visible", "0"),
      Style("block", "visible", "0.0") }

OffsetChainElements == {[tag |-> t, style |-> s] : t \in OtherTags, s \in Styles}

\* the three get_property_value comparisons
style_hides_numeric_opacity(style) ==
    \/ style.display = "none"
    \/ style.visibility = "hidden"
    \/ style.opacity \in {"0", "0.0"}
style_hides(style) ==
    \/ style.display = "none"
    \/ style.visibility = "hidden"
    \/ style.opacity = "0"

\* one iteration of the while-let loop of is_hidden on el: "false", "true"
\* (a return) or "next" (element = el.get_offset_parent())
hidden_step_style_first(el) ==
    IF unwrap_opt_or_ret_returns(el.style.present) THEN "true"
    ELSE IF style_hides(el.style) THEN "true"
    ELSE IF tag_is_BODY(el) THEN "false"
    ELSE "next"
hidden_step(el) ==
    IF tag_is_BODY(el) THEN "false"
    ELSE IF unwrap_opt_or_ret_returns(el.style.present) THEN "true"
    ELSE IF style_hides(el.style) THEN "true"
    ELSE "next"

RECURSIVE hidden_walk(_, _)
hidden_walk(chain, i) ==
    IF i > Len(chain) THEN TRUE                   \* get_offset_parent() was None
    ELSE LET r == hidden_step(chain[i]) IN
         IF r = "next" THEN hidden_walk(chain, i + 1) ELSE r = "true"

is_hidden(view, chain) ==
    IF unwrap_opt_or_ret_returns(view) THEN TRUE ELSE hidden_walk(chain, 1)

IdleHidden ==
    /\ offsetChain = <<[tag |-> "BODY", style |-> Style("block", "visible", "1")]>>
    /\ hiddenRet = TRUE

CallIsHidden ==
    /\ "is_hidden" \notin called
    /\ hiddenRet' = is_hidden(hasView, offsetChain)
    /\ called' = called \cup {"is_hidden"}
    /\ UNCHANGED <<offsetChain, hasView, enabledVars, textVars, visibleVars, iterVars, matchVars, mouseVars>>

(***************************************************************************)
(* is_visible                                                              *)
(***************************************************************************)
Pow2(n) == 2 ^ n
MantissaBits == 24     \* significand precision of f32

\* smallest power of two s with n \div s < 2^24, for 0 <= n < 2^31
RECURSIVE f32_step(_, _)
f32_step(n, s) == IF n \div s < Pow2(MantissaBits) THEN s ELSE f32_step(n, 2 * s)

\* n as f32, for n >= 0: round to nearest, ties to even
round_f32(n) ==
    LET s == f32_step(n, 1)
        q == n \div s
        r == n % s
    IN  IF 2 * r < s THEN q * s
        ELSE IF 2 * r > s THEN (q + 1) * s
        ELSE IF q % 2 = 0 THEN q * s ELSE (q + 1) * s

\* `as f32` of a glong
as_f32(n) == IF n >= 0 THEN round_f32(n) ELSE 0 - round_f32(0 - n)

NoRect == [present |-> FALSE, left |-> 0, right |-> 0, top |-> 0, bottom |-> 0]
Rect(l, r, t, b) == [present |-> TRUE, left |-> l, right |-> r, top |-> t, bottom |-> b]

\* the final boolean expression of is_visible
in_viewport_inclusive(x1, x2, y1, y2, width, height) ==
    (x1 >= 0 \/ x2 >= 0) /\ x1 <= width /\ (y1 >= 0 \/ y2 >= 0) /\ y1 <= height
in_viewport(x1, x2, y1, y2, width, height) ==
    (x1 >= 0 \/ x2 >= 0) /\ x1 < width /\ (y1 >= 0 \/ y2 >= 0) /\ y1 < height

is_visible(view, r, w, h) ==
    IF unwrap_opt_or_ret_returns(view) THEN FALSE
    ELSE IF unwrap_opt_or_ret_returns(r.present) THEN FALSE
    ELSE in_viewport(r.left, r.right, r.top, r.bottom, as_f32(w), as_f32(h))

IdleVisible ==
    /\ rect = NoRect
    /\ innerWidth = 0
    /\ innerHeight = 0
    /\ visibleRet = FALSE

CallIsVisible ==
    /\ "is_visible" \notin called
    /\ visibleRet' = is_visible(hasView, rect, innerWidth, innerHeight)
    /\ called' = called \cup {"is_visible"}
    /\ UNCHANGED <<rect, innerWidth, innerHeight, hasView, enabledVars, textVars, hiddenVars, iterVars, matchVars, mouseVars>>

(***************************************************************************)
(* NodeIter / ElementIter (macro iter!)                                    *)
(***************************************************************************)
NoHtml == [present |-> FALSE, text |-> <<>>]
Html(t) == [present |-> TRUE, text |-> t]

\* A node of a host collection: its identity, whether it downcasts to
\* DOMElement, and what get_inner_html() gives.
Node(i, e, h) == [id |-> i, elem |-> e, html |-> h]
NoItem == Node(0, FALSE, NoHtml)      \* the None of Option<DOMNode> and Option<DOMElement>

NoList == [present |-> FALSE, items |-> <<>>]
List(items) == [present |-> TRUE, items |-> items]

\* list.get_length()
get_length(list) == Len(list.items)

\* element.and_then(|element| element.downcast::<DOMElement>().ok()), for
\* the node that list.item(index) gave
downcast(node) == IF node # NoItem /\ node.elem THEN node ELSE NoItem

\* the comparison self.index < list.get_length()
index_in_range(i, list) == i < get_length(list)

\* list.item(i): the node at the 0-based position i, NoItem for None
list_item_after_increment(list, i) ==
    IF i + 1 < Len(list.items) THEN list.items[i + 2] ELSE NoItem
list_item(list, i) ==
    IF i < Len(list.items) THEN list.items[i + 1] ELSE NoItem

\* next(): the item returned, the new index and the branch taken
iter_next(list, i) ==
    IF list.present THEN
        IF index_in_range(i, list) THEN
            LET element == list_item(list, i)
                ret == downcast(element)
            IN  [item |-> ret, index |-> i + 1,
                 why |-> IF ret = NoItem THEN "downcast" ELSE "item"]
        ELSE [item |-> NoItem, index |-> i, why |-> "end"]
    ELSE [item |-> NoItem, index |-> i, why |-> "absent"]

\* The collections an adapter is built over: absent, or nodes 1..n in order;
\* a DOMHTMLCollection holds elements only, a DOMNodeList any node.
InitialLists(kind) ==
    {NoList} \cup
    UNION {{List([i \in 1..n |-> Node(i, e[i], NoHtml)]) :
              e \in [1..n -> IF kind = "ElementIter" THEN {TRUE} ELSE BOOLEAN]} :
           n \in 0..MaxLen}

IdleIter ==
    /\ adapter = "NodeIter"
    /\ node_list = NoList
    /\ index = 0
    /\ calls = <<>>
    /\ mutated = FALSE
    /\ nextId = 1

\* $name::new(node_list)
InitIter ==
    /\ adapter \in {"NodeIter", "ElementIter"}
    /\ node_list \in InitialLists(adapter)
    /\ index = 0
    /\ calls = <<>>
    /\ mutated = FALSE
    /\ nextId = Len(node_list.items) + 1

IterNext ==
    /\ Len(calls) < MaxCalls
    /\ LET r == iter_next(node_list, index) IN
        /\ index' = r.index
        /\ calls' = Append(calls, [item |-> r.item, why |-> r.why])
    /\ UNCHANGED <<adapter, node_list, mutated, nextId, called, oracleVars, matchVars, mouseVars>>

\* The host adds a node at the end of the live collection.
HostAppend ==
    /\ node_list.present
    /\ Len(node_list.items) < MaxLen
    /\ nextId <= MaxNodes
    /\ \E e \in (IF adapter = "ElementIter" THEN {TRUE} ELSE BOOLEAN) :
          node_list' = List(Append(node_list.items, Node(nextId, e, NoHtml)))
    /\ nextId' = nextId + 1
    /\ mutated' = TRUE
    /\ UNCHANGED <<adapter, index, calls, called, oracleVars, matchVars, mouseVars>>

\* The host removes a node from the live collection.
HostRemove ==
    /\ node_list.present
    /\ \E k \in 1..Len(node_list.items) :
          node_list' = List([j \in 1..(Len(node_list.items) - 1) |->
                               IF j < k THEN node_list.items[j] ELSE node_list.items[j + 1]])
    /\ mutated' = TRUE
    /\ UNCHANGED <<adapter, index, calls, nextId, called, oracleVars, matchVars, mouseVars>>

(***************************************************************************)
(* match_pattern                                                           *)
(***************************************************************************)
Chars == {"a", "1"}
Digit == {"1"}

\* Texts of inner markup, as sequences of characters.
Texts == SeqsUpTo(Chars, 2)

\* A regular expression is modelled as a sequence of character classes; it
\* matches a text that has, at some offset, one character of each class in turn
\* (is_match is unanchored).  <<Digit>> accepts what \d+ accepts.
Regexes == {<<>>, <<Digit>>, <<{"a"}>>, <<{"a"}, Digit>>}

\* regex.is_match(&text)
is_match(re, text) ==
    \E off \in 0..(Len(text) - Len(re)) :
        \A k \in 1..Len(re) : text[off + k] \in re[k]

\* the body of the for loop: TRUE when it returns Some(element)
loop_body_returns_on_html(element, re) ==
    element.html.present
loop_body_returns(element, re) ==
    element.html.present /\ is_match(re, element.html.text)

\* for element in iter { ... } None, with the adapter at index i
RECURSIVE match_loop(_, _, _)
match_loop(list, i, re) ==
    LET r == iter_next(list, i) IN
    IF r.item = NoItem THEN NoItem                 \* the for loop ends at the first None
    ELSE IF loop_body_returns(r.item, re) THEN r.item
    ELSE match_loop(list, r.index, re)

\* NodeIter::new(document.get_elements_by_tag_name(selector)) and the loop
match_pattern(list, re) == match_loop(list, 0, re)

\* What get_elements_by_tag_name gives: absent, or elements 1..n in document
\* order, each with or without inner markup.
TagNameLists ==
    {NoList} \cup
    UNION {{List([i \in 1..n |-> Node(i, TRUE, h[i])]) :
              h \in [1..n -> {NoHtml} \cup {Html(t) : t \in Texts}]} :
           n \in 0..MaxLen}

IdleMatch == regex = <<>> /\ matchRet = NoItem

InitMatchIter ==
    /\ adapter = "NodeIter"
    /\ node_list \in TagNameLists
    /\ index = 0
    /\ calls = <<>>
    /\ mutated = FALSE
    /\ nextId = Len(node_list.items) + 1

InitMatch ==
    /\ regex \in Regexes
    /\ matchRet = NoItem

CallMatchPattern ==
    /\ "match_pattern" \notin called
    /\ matchRet' = match_pattern(node_list, regex)
    /\ called' = called \cup {"match_pattern"}
    /\ UNCHANGED <<regex, iterVars, oracleVars, mouseVars>>

(***************************************************************************)
(* mouse_event, click, mouse_down, mouse_over, mouse_out                   *)
(***************************************************************************)
\* wtry_opt_no_ret!(opt): TRUE when the option is None and the macro makes
\* the enclosing function return
wtry_opt_no_ret_returns(present) == ~ present

\* wtry_no_show!(result): TRUE when the result is Err and the macro makes the
\* enclosing function return
wtry_no_show_returns(ok) == ~ ok

\* What the host answers: element.get_owner_document() is Some,
\* create_event("MouseEvents") is Ok, document.get_default_view() is Some,
\* the event downcasts to DOMMouseEvent, dispatch_event returns Ok.
MouseEnvs ==
    [ownerDocument : BOOLEAN, createEventOk : BOOLEAN, defaultView : BOOLEAN,
     isMouseEvent : BOOLEAN, dispatchOk : BOOLEAN]

\* event.init_mouse_event(event_name, true, true, &window, 0, 0, 0, 0, 0,
\*                        ctrl_key, false, false, false, 0, element)
init_mouse_event(event_name, ctrl_key) ==
    [type |-> event_name, bubbles |-> TRUE, cancelable |-> TRUE, detail |-> 0,
     ctrlKey |-> ctrl_key, altKey |-> FALSE, shiftKey |-> FALSE, metaKey |-> FALSE,
     button |-> 0, relatedTarget |-> "element"]

\* the second wtry_opt_no_ret! of mouse_event: the owner document's default view
window_missing_ignored(env) == FALSE
window_missing(env) ==
    wtry_opt_no_ret_returns(env.ownerDocument /\ env.defaultView)

\* mouse_event: the events dispatched to the element once it has returned
mouse_event(event_name, ctrl_key, env, dispatched) ==
    IF wtry_opt_no_ret_returns(env.ownerDocument /\ env.createEventOk) THEN dispatched
    ELSE IF window_missing(env) THEN dispatched
    ELSE IF wtry_no_show_returns(env.isMouseEvent) THEN dispatched
    ELSE Append(dispatched, init_mouse_event(event_name, ctrl_key))

NoMouseCall == [called |-> FALSE, name |-> "", env |-> [ownerDocument |-> FALSE,
                createEventOk |-> FALSE, defaultView |-> FALSE, isMouseEvent |-> FALSE,
                dispatchOk |-> FALSE]]

IdleMouse ==
    /\ mouseEnv = NoMouseCall.env
    /\ events = <<>>
    /\ mouseCalls = 0
    /\ mouseLast = NoMouseCall

InitMouse ==
    /\ mouseEnv \in MouseEnvs
    /\ events = <<>>
    /\ mouseCalls = 0
    /\ mouseLast = NoMouseCall

\* a call of mouse_event(event_name, element, ctrl_key) that runs to its return
MouseEventCall(event_name, ctrl_key) ==
    /\ mouseCalls < MaxMouseCalls
    /\ Len(events) < MaxEvents
    /\ events' = mouse_event(event_name, ctrl_key, mouseEnv, events)
    /\ mouseCalls' = mouseCalls + 1
    /\ mouseLast' = [called |-> TRUE, name |-> event_name, env |-> mouseEnv]
    /\ UNCHANGED <<mouseEnv, called, oracleVars, iterVars, matchVars>>

click == \E ctrl_key \in BOOLEAN : MouseEventCall("click", ctrl_key)
mouse_down == MouseEventCall("mousedown", FALSE)
mouse_over == MouseEventCall("mouseover", FALSE)
mouse_out == MouseEventCall("mouseout", FALSE)

\* Between two calls the page and the host may change what they answer.
HostChange ==
    /\ mouseEnv' \in MouseEnvs \ {mouseEnv}
    /\ UNCHANGED <<events, mouseCalls, mouseLast, called, oracleVars, iterVars, matchVars>>

(***************************************************************************)
(* Specifications                                                          *)
(***************************************************************************)
\* is_enabled on an element with every parent chain up to MaxChain
InitE ==
    /\ called = {}
    /\ InitEnabled
    /\ IdleText /\ IdleHidden /\ IdleVisible /\ hasView = TRUE
    /\ IdleIter /\ IdleMatch /\ IdleMouse
NextE == CallIsEnabled
SpecEnabled == InitE /\ [][NextE]_vars

\* is_text_input on every element kind and type string
InitT ==
    /\ called = {}
    /\ InitText
    /\ IdleEnabled /\ IdleHidden /\ IdleVisible /\ hasView = TRUE
    /\ IdleIter /\ IdleMatch /\ IdleMouse
NextT == CallIsTextInput
SpecText == InitT /\ [][NextT]_vars

\* The element of the independence example: its bounding rectangle is at
\* (-100, -100) with size 10 x 10.
OutsideRect == Rect(-100, -90, -100, -90)
ViewportSizes == {0, 2000}

\* is_hidden and is_visible on the same element, with every offset-parent
\* chain up to MaxChain
InitH ==
    /\ called = {}
    /\ hasView \in BOOLEAN
    /\ offsetChain \in NonEmptySeqsUpTo(OffsetChainElements, MaxChain)
    /\ hiddenRet = TRUE
    /\ rect = OutsideRect
    /\ innerWidth \in ViewportSizes
    /\ innerHeight \in ViewportSizes
    /\ visibleRet = FALSE
    /\ IdleEnabled /\ IdleText
    /\ IdleIter /\ IdleMatch /\ IdleMouse
NextH == CallIsHidden \/ CallIsVisible
SpecHidden == InitH /\ [][NextH]_vars

\* is_visible on every rectangle and window size of the grid
MaxCoord == 2
BigWidth == Pow2(MantissaBits) + 1    \* the least width that `as f32` changes
Coords == (0 - MaxCoord)..MaxCoord
Sizes == 0..MaxCoord
InitV ==
    /\ called = {}
    /\ hasView \in BOOLEAN
    /\ \/ rect = NoRect
       \/ \E l \in Coords, r \in Coords, t \in Coords, b \in Coords : rect = Rect(l, r, t, b)
       \/ \E l \in {BigWidth - 1}, w \in {0, 1}, t \in Coords, b \in Coords :
             rect = Rect(l, l + w, t, b)
    /\ innerWidth \in Sizes \cup {BigWidth}
    /\ innerHeight \in Sizes
    /\ visibleRet = FALSE
    /\ IdleEnabled /\ IdleText /\ IdleHidden
    /\ IdleIter /\ IdleMatch /\ IdleMouse
NextV == CallIsVisible
SpecVisible == InitV /\ [][NextV]_vars

\* an adapter, its consumer and the host changing the live collection
InitI ==
    /\ called = {}
    /\ InitIter
    /\ IdleEnabled /\ IdleText /\ IdleHidden /\ IdleVisible /\ hasView = TRUE
    /\ IdleMatch /\ IdleMouse
NextI == IterNext \/ HostAppend \/ HostRemove
SpecIter == InitI /\ [][NextI]_vars

\* match_pattern on every collection of elements up to MaxLen
InitM ==
    /\ called = {}
    /\ InitMatchIter
    /\ InitMatch
    /\ IdleEnabled /\ IdleText /\ IdleHidden /\ IdleVisible /\ hasView = TRUE
    /\ IdleMouse
NextM == CallMatchPattern
SpecMatch == InitM /\ [][NextM]_vars

\* mouse events on one element while the host changes
InitMo ==
    /\ called = {}
    /\ InitMouse
    /\ IdleEnabled /\ IdleText /\ IdleHidden /\ IdleVisible /\ hasView = TRUE
    /\ IdleIter /\ IdleMatch
NextMo == click \/ mouse_down \/ mouse_over \/ mouse_out \/ HostChange
SpecMouse == InitMo /\ [][NextMo]_vars

(***************************************************************************)
(* Properties                                                              *)
(***************************************************************************)
Min(S) == CHOOSE m \in S : \A n \in S : m <= n

\* C1: is_enabled returns false if and only if the element is a button, input,
\* select or textarea and, walking from it up the parent elements and stopping
\* at the first element whose tag name is exactly "BODY", some element visited
\* before that stop is a disabled button, input, select, textarea or fieldset;
\* in every other case it returns true.
C1_EnabledContract ==
    "is_enabled" \in called =>
        (enabledRet = FALSE <=>
            /\ parentChain[1].kind \in {"button", "input", "select", "textarea"}
            /\ \E i \in 1..Len(parentChain) :
                  /\ \A j \in 1..i : parentChain[j].tag # "BODY"
                  /\ parentChain[i].kind \in {"button", "input", "select", "textarea", "fieldset"}
                  /\ parentChain[i].disabled)

\* an enabled control inside a disabled fieldset below BODY is reported disabled
C1_Witness ==
    /\ "is_enabled" \in called
    /\ enabledRet = FALSE
    /\ Len(parentChain) = 3
    /\ parentChain[1].kind = "input" /\ ~ parentChain[1].disabled
    /\ parentChain[2].kind = "fieldset" /\ parentChain[2].disabled
    /\ parentChain[3].tag = "BODY"

HidingStyle(st) ==
    st.present /\ (st.display = "none" \/ st.visibility = "hidden" \/ st.opacity = "0")

\* C2: is_hidden returns true when there is no default view; otherwise the
\* first element on the offset-parent chain that is BODY, has no computed style
\* or has display "none", visibility "hidden" or opacity "0" fixes the result:
\* false when it is BODY (whatever its style), true otherwise; with no such
\* element on the chain the result is true.
C2_HiddenContract ==
    "is_hidden" \in called =>
        LET deciding == {i \in 1..Len(offsetChain) :
                            \/ offsetChain[i].tag = "BODY"
                            \/ ~ offsetChain[i].style.present
                            \/ HidingStyle(offsetChain[i].style)}
        IN  hiddenRet = (IF ~ hasView THEN TRUE
                         ELSE IF deciding = {} THEN TRUE
                         ELSE offsetChain[Min(deciding)].tag # "BODY")

\* a BODY styled display none, reached through a plain element, gives false
C2_Witness ==
    /\ "is_hidden" \in called
    /\ hasView
    /\ hiddenRet = FALSE
    /\ Len(offsetChain) = 2
    /\ offsetChain[1].tag = "DIV" /\ offsetChain[1].style = Style("block", "visible", "1")
    /\ offsetChain[2].tag = "BODY" /\ offsetChain[2].style = Style("none", "visible", "1")

\* the closed rectangle has a point in [0, w) x [0, h)
Intersects(r, w, h) ==
    \E x \in r.left..r.right, y \in r.top..r.bottom :
        0 <= x /\ x < w /\ 0 <= y /\ y < h

\* C3 as stated: is_visible is false without a default view or a bounding
\* rectangle, otherwise it is (left >= 0 or right >= 0) and left < inner width
\* and (top >= 0 or bottom >= 0) and top < inner height, and for every rectangle
\* with left <= right and top <= bottom this equals the rectangle intersecting
\* [0, width) x [0, height).
C3_Original ==
    "is_visible" \in called =>
        /\ (~ hasView \/ ~ rect.present) => visibleRet = FALSE
        /\ (hasView /\ rect.present) =>
              /\ visibleRet = (/\ (rect.left >= 0 \/ rect.right >= 0)
                               /\ rect.left < innerWidth
                               /\ (rect.top >= 0 \/ rect.bottom >= 0)
                               /\ rect.top < innerHeight)
              /\ (rect.left <= rect.right /\ rect.top <= rect.bottom) =>
                    visibleRet = Intersects(rect, innerWidth, innerHeight)

\* C3 amended: the comparisons are against the inner width and height
\* converted to f32, and the equality with the intersection test is for windows
\* whose inner width and height are positive and unchanged by that conversion.
C3_VisibleContract ==
    "is_visible" \in called =>
        /\ (~ hasView \/ ~ rect.present) => visibleRet = FALSE
        /\ (hasView /\ rect.present) =>
              /\ visibleRet = (/\ (rect.left >= 0 \/ rect.right >= 0)
                               /\ rect.left < as_f32(innerWidth)
                               /\ (rect.top >= 0 \/ rect.bottom >= 0)
                               /\ rect.top < as_f32(innerHeight))
              /\ (/\ rect.left <= rect.right /\ rect.top <= rect.bottom
                  /\ innerWidth > 0 /\ innerHeight > 0
                  /\ as_f32(innerWidth) = innerWidth
                  /\ as_f32(innerHeight) = innerHeight) =>
                    visibleRet = Intersects(rect, innerWidth, innerHeight)

\* a rectangle that straddles the left and top edges of the window is visible
C3_Witness ==
    /\ "is_visible" \in called
    /\ hasView /\ rect.present
    /\ rect.left < 0 /\ rect.right > 0 /\ rect.top < 0 /\ rect.bottom > 0
    /\ innerWidth > 0 /\ innerHeight > 0
    /\ visibleRet = TRUE

ReachesBody(chain) == \E i \in 1..Len(chain) : chain[i].tag = "BODY"
BeforeBody(chain) == {i \in 1..Len(chain) : \A j \in 1..i : chain[j].tag # "BODY"}

\* C4 as stated: for an element whose bounding rectangle is at (-100, -100)
\* with size 10 x 10, whose offset-parent chain reaches BODY with no element of
\* the chain having display "none", visibility "hidden" or opacity "0", and
\* with a default view, is_hidden and is_visible both return false.
C4_Original ==
    (/\ {"is_hidden", "is_visible"} \subseteq called
     /\ hasView
     /\ rect = Rect(-100, -100 + 10, -100, -100 + 10)
     /\ ReachesBody(offsetChain)
     /\ \A i \in 1..Len(offsetChain) : ~ HidingStyle(offsetChain[i].style))
    => (hiddenRet = FALSE /\ visibleRet = FALSE)

\* C4 amended: the same, where in addition every element of the chain before
\* BODY has a computed style.
C4_Independent ==
    (/\ {"is_hidden", "is_visible"} \subseteq called
     /\ hasView
     /\ rect = Rect(-100, -100 + 10, -100, -100 + 10)
     /\ ReachesBody(offsetChain)
     /\ \A i \in 1..Len(offsetChain) : ~ HidingStyle(offsetChain[i].style)
     /\ \A i \in BeforeBody(offsetChain) : offsetChain[i].style.present)
    => (hiddenRet = FALSE /\ visibleRet = FALSE)

\* the element of the example under two plain offset parents and BODY
C4_Witness ==
    /\ {"is_hidden", "is_visible"} \subseteq called
    /\ hasView
    /\ rect = Rect(-100, -90, -100, -90)
    /\ innerWidth = 2000 /\ innerHeight = 2000
    /\ Len(offsetChain) = 3
    /\ offsetChain[1].tag = "DIV" /\ offsetChain[1].style = Style("block", "visible", "1")
    /\ offsetChain[2].tag = "DIV" /\ offsetChain[2].style = Style("block", "visible", "0.0")
    /\ offsetChain[3].tag = "BODY"
    /\ hiddenRet = FALSE /\ visibleRet = FALSE

\* C5 as stated: over a present collection of length N that does not change,
\* the k-th next() call produces the item at index k-1 for k <= N, and every
\* call after the N-th produces the absent result.
C5_Original ==
    (node_list.present /\ ~ mutated) =>
        \A k \in 1..Len(calls) :
            calls[k].item = (IF k <= Len(node_list.items) THEN node_list.items[k] ELSE NoItem)

\* C5 amended: the same, for a collection all of whose items downcast to
\* DOMElement.
C5_InOrder ==
    (/\ node_list.present /\ ~ mutated
     /\ \A p \in 1..Len(node_list.items) : node_list.items[p].elem) =>
        \A k \in 1..Len(calls) :
            calls[k].item = (IF k <= Len(node_list.items) THEN node_list.items[k] ELSE NoItem)

\* a collection of three elements drained by four calls
C5_Witness ==
    /\ node_list.present /\ ~ mutated
    /\ Len(node_list.items) = 3
    /\ \A p \in 1..3 : node_list.items[p].elem
    /\ Len(calls) = 4
    /\ calls[3].item = node_list.items[3]
    /\ calls[4].item = NoItem

\* C6: once next() has returned the absent result because the collection is
\* absent or the index has reached its length, every later next() call on the
\* adapter returns the absent result, whatever the host did in between.
C6_Original ==
    \A i \in 1..Len(calls), j \in 1..Len(calls) :
        (i < j /\ calls[i].why \in {"end", "absent"}) => calls[j].item = NoItem

\* C7: match_pattern returns the element of lowest index among the elements of
\* the collection that have inner markup matching the regex, and the absent
\* result exactly when there is none; elements without inner markup or with
\* markup that does not match do not stop the scan.
C7_FirstMatch ==
    "match_pattern" \in called =>
        LET matching == {i \in 1..Len(node_list.items) :
                            /\ node_list.items[i].html.present
                            /\ is_match(regex, node_list.items[i].html.text)}
        IN  matchRet = (IF matching = {} THEN NoItem ELSE node_list.items[Min(matching)])

\* the second of three elements is returned: the first has no inner markup,
\* the third matches too
C7_Witness ==
    /\ "match_pattern" \in called
    /\ regex = <<Digit>>
    /\ Len(node_list.items) = 3
    /\ ~ node_list.items[1].html.present
    /\ node_list.items[2].html = Html(<<"a", "1">>)
    /\ node_list.items[3].html = Html(<<"1">>)
    /\ matchRet = node_list.items[2]

\* C8: every mouse_event call returns and changes nothing but the dispatched
\* events: exactly one event is dispatched when the owner document exists, the
\* event is created, the default view exists and the event downcasts to a mouse
\* event; otherwise none is.
C8_AtMostOneEvent ==
    [][(events' # events \/ mouseCalls' # mouseCalls) =>
          /\ mouseCalls' = mouseCalls + 1
          /\ mouseEnv' = mouseEnv
          /\ IF /\ mouseEnv.ownerDocument /\ mouseEnv.createEventOk
                /\ mouseEnv.defaultView /\ mouseEnv.isMouseEvent
             THEN /\ Len(events') = Len(events) + 1
                  /\ SubSeq(events', 1, Len(events)) = events
                  /\ events'[Len(events')].type = mouseLast'.name
             ELSE events' = events]_vars

\* after one dispatched event, a call with no default view has returned
\* without dispatching
C8_Witness ==
    /\ mouseCalls = 2
    /\ Len(events) = 1
    /\ mouseLast.called
    /\ mouseLast.env.ownerDocument /\ mouseLast.env.createEventOk
    /\ mouseLast.env.isMouseEvent /\ ~ mouseLast.env.defaultView

\* C9: is_text_input returns false exactly when the element is an input
\* element whose reported type is one of button, checkbox, color, file, hidden,
\* image, radio, reset, submit, and true in every other case.
C9_TextInput ==
    "is_text_input" \in called =>
        (textRet = FALSE <=>
            /\ textElement.kind = "input"
            /\ textElement.type \in {"button", "checkbox", "color", "file", "hidden",
                                     "image", "radio", "reset", "submit"})

\* a button element of type submit is not an input element: the result is true
C9_Witness ==
    /\ "is_text_input" \in called
    /\ textElement.kind = "button"
    /\ textElement.type = "submit"
    /\ textRet = TRUE

\* the items a consumer receives when it stops at the first absent result
Received(cs) ==
    LET stops == {k \in 1..Len(cs) : cs[k].item = NoItem}
    IN  IF stops = {} THEN {cs[k].item : k \in 1..Len(cs)}
        ELSE {cs[k].item : k \in 1..(Min(stops) - 1)}

\* C10: an item that fails the downcast does not end the sequence: a consumer
\* that drains the adapter until the first absent result still receives every
\* later item of the collection that passes the downcast.
C10_Original ==
    (/\ node_list.present /\ ~ mutated
     /\ \E k \in 1..Len(calls) : calls[k].item = NoItem) =>
        \A p \in 1..Len(node_list.items), q \in 1..Len(node_list.items) :
            (p < q /\ ~ node_list.items[p].elem /\ node_list.items[q].elem) =>
                node_list.items[q] \in Received(calls)

====
